---- MODULE Spec2Model ----
(***************************************************************************)
(* A model of venvpy/factory.py: the port allocator (class Socket), the    *)
(* descriptor factory (PythonFactory.factory_fund), the lifecycle          *)
(* operations of a PythonVenv (create, reinstall, reactivate, close), the  *)
(* generated server stub, the client stub's call and the command runner.   *)
(*                                                                         *)
(* Six specifications share the variables:                                 *)
(*   SpecAlloc  one Socket instance, called repeatedly while other         *)
(*              processes bind and release ports;                          *)
(*   SpecLife   one PythonFactory, its descriptor classes and instances,   *)
(*              the workspace directories and the uwsgi servers;           *)
(*   SpecStub   the text PythonVenv.__server generates and the names the   *)
(*              stub's /bind handler resolves;                             *)
(*   SpecClient one call of a function wrapped by set_env;                 *)
(*   SpecRun    one run of __run_bash_cmd with its child process;          *)
(*   SpecConc   threads calling next_free_port on one Socket.              *)
(***************************************************************************)
EXTENDS Integers, Sequences, FiniteSets, TLC

\* ------------------------------------------------------------------ bounds
MaxPort == 3      \* port numbers are 1..MaxPort
MaxCalls == 4     \* ports one Socket issues in SpecAlloc
MaxClasses == 1   \* factory_fund calls that register a class
MaxVenvs == 2     \* PythonVenv instances constructed
MaxImports == 4   \* statements in PythonVenv.imports
MaxName == 3      \* characters in a wrapped function's name
PipeCap == 2      \* lines an OS pipe holds before a write to it blocks
MaxOutput == 3    \* lines a child writes before it exits
MaxThreads == 2   \* threads calling next_free_port on one Socket

Ports == 1..MaxPort

VARIABLES
  \* --- the allocator (class Socket)
  port,        \* Socket.port: the allocator's cursor
  max_port,    \* Socket.max_port: the inclusive upper bound
  port_range,  \* the constructor's argument <<lo, hi>>
  busy,        \* ports other processes hold bound right now
  issued,      \* the ports next_free_port has returned, in order
  last,        \* the last next_free_port call: what it saw and what it did
  clean,       \* every bind attempt so far found every port of the range free
  \* --- the factory, its descriptors and the machine they run on
  factories,   \* PythonFactory.factories: the registered descriptor classes
  args,        \* the libs and after_install_cmd the controller constructs with
  venvs,       \* the PythonVenv instances constructed so far
  dir_exists,  \* per workspace directory: os.path.exists(venvs_dir)
  app_py,      \* per workspace directory: app.py has been written
  pidfile,     \* per workspace directory: what myapp.pid holds (see NoFile)
  servers,     \* the ports a uwsgi server launched from here listens on
  op,          \* the lifecycle operation the controller is in, and where
  trace,       \* the steps the operation has started, in order
  child,       \* the command __run_bash_cmd is waiting for, "" when none
  p_status,    \* the exit code __run_bash_cmd read last
  closed,      \* descriptors closed since the last server launch
  \* --- the generated server stub
  imports,     \* PythonVenv.imports
  code_lines,  \* the lines __server writes to app.py, <<>> before it runs
  bind,        \* the last /bind request the stub handled, and what became of it
  \* --- the client stub (set_env)
  func_name,   \* func.__name__ of the wrapped function, a sequence of characters
  response,    \* what the POST to /bind came back with
  call,        \* the last call of the wrapper: what it sent and how it ended
  \* --- one run of __run_bash_cmd, step by step
  runner,      \* __run_bash_cmd: where it is, its locals, what it logged
  proc,        \* the child process: its state, its exit code, its pipes
  \* --- threads calling next_free_port on one Socket
  thr          \* per thread: where it is in next_free_port and its locals

allocVars == <<port, max_port, port_range, busy, issued, last, clean>>
lifeVars == <<factories, args, venvs, dir_exists, app_py, pidfile, servers, op, trace,
              child, p_status, closed>>
stubVars == <<imports, code_lines, bind>>

clientVars == <<func_name, response, call>>
runVars == <<runner, proc>>
concVars == <<thr>>

vars == <<allocVars, lifeVars, stubVars, clientVars, runVars, concVars>>

\* ------------------------------------------------------- Socket (lines 22-35)

\* next_free_port with the bound taken as exclusive: while self.port < self.max_port
RECURSIVE next_free_port_exclusive(_, _, _)
next_free_port_exclusive(p, maxp, free) ==
  IF p < maxp
    THEN IF p \in free
           THEN [port |-> p, raised |-> FALSE, value |-> p]
           ELSE next_free_port_exclusive(p + 1, maxp, free)
    ELSE [port |-> p, raised |-> TRUE, value |-> 0]

\* next_free_port scanning the whole range again from its lower bound
next_free_port_rescan(p, maxp, free) ==
  LET c == {q \in free : port_range[1] <= q /\ q <= maxp} IN
  IF c = {}
    THEN [port |-> IF p > maxp THEN p ELSE maxp + 1, raised |-> TRUE, value |-> 0]
    ELSE LET m == CHOOSE q \in c : \A r \in c : q <= r IN
         [port |-> m, raised |-> FALSE, value |-> m]

\* The while loop of next_free_port: bind fails on a port that is not free
\* (OSError) and the cursor moves on; a successful bind returns the cursor
\* as it stands; leaving the loop raises IOError("no free ports").
RECURSIVE next_free_port(_, _, _)
next_free_port(p, maxp, free) ==
  IF p <= maxp
    THEN IF p \in free
           THEN [port |-> p, raised |-> FALSE, value |-> p]
           ELSE next_free_port(p + 1, maxp, free)
    ELSE [port |-> p, raised |-> TRUE, value |-> 0]

NoCall == [cursor |-> 0, free |-> {}, raised |-> FALSE, value |-> 0]

\* The ports a bind would succeed on: those no other process and no server
\* launched from here holds.
Bindable == Ports \ (busy \cup servers)

\* One call of next_free_port on the instance, with its effect on the cursor.
CallNextFreePort(free) ==
  LET r == next_free_port(port, max_port, free) IN
  /\ port' = r.port
  /\ last' = [cursor |-> port, free |-> free, raised |-> r.raised, value |-> r.value]
  /\ issued' = IF r.raised THEN issued ELSE Append(issued, r.value)
  /\ clean' = (clean /\ (port_range[1]..port_range[2]) \subseteq free)
  /\ UNCHANGED <<max_port, port_range>>

\* Socket.__init__: self.port, self.max_port = port_range
InitSocket ==
  /\ port_range \in Ports \X Ports
  /\ port = port_range[1]
  /\ max_port = port_range[2]
  /\ issued = <<>>
  /\ last = NoCall
  /\ clean = TRUE

\* ------------------------------------------- the machine before any call
\* The workspace directories: one default venvs_dir per registered class.
Dirs == 1..MaxClasses

\* A port is bound by one process at a time, so a running server is known by
\* its port, and a pid file by the server whose pid it holds: a port p stands
\* for the pid of the server listening on p, StalePid for the pid of a process
\* that has exited, NoFile for the absence of the file.
NoFile == 0
StalePid == -1

Idle == [kind |-> "none", venv |-> 0, pc |-> 0, status |-> "returned"]

NoArgs == [libs |-> <<>>, after_install_cmd |-> ""]

InitLifeIdle ==
  /\ factories = <<>>
  /\ venvs = <<>>
  /\ dir_exists = [w \in Dirs |-> FALSE]
  /\ app_py = [w \in Dirs |-> FALSE]
  /\ pidfile = [w \in Dirs |-> NoFile]
  /\ servers = {}
  /\ op = Idle
  /\ trace = <<>>
  /\ child = ""
  /\ p_status = 0
  /\ closed = {}

NoBind == [fn |-> "", outcome |-> "none"]

InitStubIdle ==
  /\ imports = <<>>
  /\ code_lines = <<>>
  /\ bind = NoBind

NoResponse == [kind |-> "none", status |-> 0, body |-> ""]

NoCallYet == [fn |-> <<>>, outcome |-> "none", error |-> "", executed |-> FALSE]

InitClientIdle ==
  /\ func_name = <<>>
  /\ response = NoResponse
  /\ call = NoCallYet

NoRunner == [pc |-> "none"]

NoProc == [state |-> "none"]

InitRunIdle ==
  /\ runner = NoRunner
  /\ proc = NoProc

InitConcIdle == thr = <<>>

\* ------------------------------------------------------------ SpecAlloc
InitAlloc ==
  /\ InitSocket
  /\ busy \in SUBSET Ports
  /\ InitLifeIdle
  /\ args = NoArgs
  /\ InitStubIdle
  /\ InitClientIdle
  /\ InitRunIdle
  /\ InitConcIdle

NextFreePort ==
  /\ Len(issued) < MaxCalls
  /\ CallNextFreePort(Bindable)
  /\ UNCHANGED <<busy, lifeVars, stubVars, clientVars, runVars, concVars>>

\* Another process binds a free port.
OtherBind ==
  \E p \in Ports \ busy :
    /\ busy' = busy \cup {p}
    /\ UNCHANGED <<port, max_port, port_range, issued, last, clean, lifeVars, stubVars, clientVars, runVars, concVars>>

\* Another process releases a port it held.
OtherRelease ==
  \E p \in busy :
    /\ busy' = busy \ {p}
    /\ UNCHANGED <<port, max_port, port_range, issued, last, clean, lifeVars, stubVars, clientVars, runVars, concVars>>

NextAlloc == NextFreePort \/ OtherBind \/ OtherRelease

SpecAlloc == InitAlloc /\ [][NextAlloc]_vars

\* C1: a successful next_free_port call leaves the cursor past the port it
\* returned, and no port is returned twice by one allocator.
C1_CursorPassesIssuedPort ==
  /\ (last # NoCall /\ ~last.raised) => port > last.value
  /\ \A i, j \in 1..Len(issued) : i # j => issued[i] # issued[j]

\* C3: next_free_port returns the lowest bindable port between the cursor and
\* the upper bound, a port of the configured range, and raises exactly when no
\* port between the cursor and the upper bound is bindable.
Candidates == {p \in last.free : last.cursor <= p /\ p <= max_port}

C3_LowestBindableOrExhausted ==
  last # NoCall =>
    /\ last.raised <=> Candidates = {}
    /\ ~last.raised =>
         /\ last.value \in Candidates
         /\ \A p \in Candidates : last.value <= p
         /\ port_range[1] <= last.value /\ last.value <= port_range[2]

\* A call that skipped a busy port and returned a later one.
C3_Witness ==
  /\ last # NoCall /\ ~last.raised
  /\ last.value > last.cursor
  /\ last.value < max_port

\* C4: while every port of the range is bindable, next_free_port raises
\* exactly when hi - lo + 1 ports have been issued before the call.
IssuedBeforeLast == Len(issued) - (IF last.raised THEN 0 ELSE 1)

C4_ExhaustedAfterWholeRange ==
  (last # NoCall /\ clean /\ port_range[1] <= port_range[2]) =>
    (last.raised <=> IssuedBeforeLast = port_range[2] - port_range[1] + 1)

\* C20: the cursor never decreases; a call never returns a port below the
\* cursor it started from, so a port skipped while busy is not returned later
\* even after it became free; and once the cursor is past the upper bound
\* every later call raises and issues nothing.
CallStep == issued' # issued \/ last' # last

C20_CursorOnlyAdvances ==
  [][/\ port' >= port
     /\ CallStep =>
          /\ ~last'.raised => (last'.value >= port /\ issued' = Append(issued, last'.value))
          /\ port > max_port => (last'.raised /\ issued' = issued)]_vars

\* A call that returned a port although a port of the range below the cursor,
\* skipped earlier and never issued, was free again.
C20_Witness ==
  /\ last # NoCall /\ ~last.raised
  /\ \E q \in last.free :
       /\ port_range[1] <= q /\ q < last.cursor
       /\ \A i \in 1..Len(issued) : issued[i] # q

\* ------------------------------------- PythonVenv: the steps of an operation

\* __install_venv with the after_install_cmd run after the pyenv install
install_venv_cmd_after_pyenv(v) ==
  <<"apt", "git_clone", "pyenv_install">>
  \o (IF v.after_install_cmd # "" THEN <<"after_install_cmd">> ELSE <<>>)
  \o <<"pip_base">>

\* __install_venv (lines 103-127): apt, the optional after_install_cmd, the
\* pyenv clone, the pyenv install, the pip install of flask/waitress/uwsgi.
install_venv(v) ==
  <<"apt">>
  \o (IF v.after_install_cmd # "" THEN <<"after_install_cmd">> ELSE <<>>)
  \o <<"git_clone", "pyenv_install", "pip_base">>

\* __install_libs (lines 97-101): one pip install of the joined libs.
install_libs == <<"pip_libs">>

\* __server (lines 236-265): write app.py, then launch uwsgi in the background.
server == <<"write_app", "uwsgi_launch">>

\* __post_init__ with the server launched before the libs are installed
post_init_server_first(v) ==
  <<"makedirs", "envs_append">>
  \o install_venv(v)
  \o server
  \o (IF v.libs # <<>> THEN install_libs ELSE <<>>)

\* __post_init__ (lines 62-95)
post_init(v) ==
  <<"makedirs", "envs_append">>
  \o install_venv(v)
  \o (IF v.libs # <<>> THEN install_libs ELSE <<>>)
  \o server

\* reinstall (lines 129-136)
reinstall(v) ==
  <<"pyenv_uninstall", "rmtree">> \o install_venv(v) \o install_libs \o server

\* reactivate (lines 138-139)
reactivate == server

\* close (lines 267-273)
close == <<"uwsgi_stop">>

Program(o) ==
  CASE o.kind = "create" -> post_init(venvs[o.venv])
    [] o.kind = "reinstall" -> reinstall(venvs[o.venv])
    [] o.kind = "reactivate" -> reactivate
    [] o.kind = "close" -> close
    [] OTHER -> <<>>

Running == op.status = "running"
Cur == Program(op)[op.pc]
AtStep(s) == Running /\ child = "" /\ op.pc <= Len(Program(op)) /\ Cur = s
Ws == venvs[op.venv].venvs_dir

\* The statement after the current one; the operation returns after its last.
Advanced ==
  IF op.pc = Len(Program(op))
    THEN [op EXCEPT !.pc = @ + 1, !.status = "returned"]
    ELSE [op EXCEPT !.pc = @ + 1]

\* An exception leaves the operation where it was raised.
Raised == [op EXCEPT !.status = "raised"]

\* ---------------------------------------------------------- PythonFactory

InitLife ==
  /\ InitSocket
  /\ port_range[1] = 1
  /\ busy = {}
  /\ InitLifeIdle
  /\ args \in [libs : {<<>>, <<"lib">>}, after_install_cmd : {"", "cmd"}]
  /\ InitStubIdle
  /\ InitClientIdle
  /\ InitRunIdle
  /\ InitConcIdle

\* factory_fund (lines 48-60, 275): the class body evaluates its defaults once,
\* port = self.next_free_port() and venvs_dir = /tmp/<uuid1>, and the class is
\* appended to factories; an IOError from next_free_port leaves factories alone.
FactoryFund ==
  /\ ~Running
  /\ Len(factories) < MaxClasses
  /\ CallNextFreePort(Bindable)
  /\ LET r == next_free_port(port, max_port, Bindable) IN
       factories' = IF r.raised THEN factories
                    ELSE Append(factories,
                                [port |-> r.value, venvs_dir |-> Len(factories) + 1])
  /\ UNCHANGED <<busy, args, venvs, dir_exists, app_py, pidfile, servers, op, trace,
                 child, p_status, closed, stubVars, clientVars, runVars, concVars>>

\* PythonVenv(python_version, libs=..., after_install_cmd=...): an instance of
\* a registered class, port and venvs_dir left at the class's defaults; the
\* dataclass then runs __post_init__. The controller passes the same libs and
\* after_install_cmd to every descriptor it constructs in one run.
Instantiate ==
  \E c \in 1..Len(factories) :
    /\ ~Running
    /\ Len(venvs) < MaxVenvs
    /\ venvs' = Append(venvs, [cls |-> c, libs |-> args.libs,
                               after_install_cmd |-> args.after_install_cmd,
                               port |-> factories[c].port,
                               venvs_dir |-> factories[c].venvs_dir, envs |-> 0])
    /\ op' = [kind |-> "create", venv |-> Len(venvs) + 1, pc |-> 1, status |-> "running"]
    /\ trace' = <<>>
    /\ closed' = {}
    /\ UNCHANGED <<allocVars, factories, args, dir_exists, app_py, pidfile, servers,
                   child, p_status, stubVars, clientVars, runVars, concVars>>

\* venv.reinstall(), venv.reactivate(), venv.close() on an existing instance.
Begin(kind) ==
  \E d \in 1..Len(venvs) :
    /\ ~Running
    /\ op' = [kind |-> kind, venv |-> d, pc |-> 1, status |-> "running"]
    /\ trace' = <<>>
    /\ closed' = IF kind = "close" THEN closed ELSE {}
    /\ UNCHANGED <<allocVars, factories, args, venvs, dir_exists, app_py, pidfile,
                   servers, child, p_status, stubVars, clientVars, runVars, concVars>>

Reinstall == Begin("reinstall")
Reactivate == Begin("reactivate")
Close == Begin("close")

\* ------------------------------------------------ the steps, one at a time

\* lines 66-67: if not os.path.exists(venvs_dir): os.makedirs(venvs_dir)
Makedirs ==
  /\ AtStep("makedirs")
  /\ dir_exists' = [dir_exists EXCEPT ![Ws] = TRUE]
  /\ trace' = Append(trace, Cur)
  /\ op' = Advanced
  /\ UNCHANGED <<allocVars, factories, args, venvs, app_py, pidfile, servers, child,
                 p_status, closed, stubVars, clientVars, runVars, concVars>>

\* lines 69-90: self.envs.append({**os.environ, PYENV_ROOT, PATH, PYTHONPATH, ...})
EnvsAppend ==
  /\ AtStep("envs_append")
  /\ venvs' = [venvs EXCEPT ![op.venv].envs = @ + 1]
  /\ trace' = Append(trace, Cur)
  /\ op' = Advanced
  /\ UNCHANGED <<allocVars, factories, args, dir_exists, app_py, pidfile, servers,
                 child, p_status, closed, stubVars, clientVars, runVars, concVars>>

\* line 133: shutil.rmtree(venvs_dir) removes the directory with app.py and
\* myapp.pid in it, and raises FileNotFoundError when there is no directory.
\* A server that is running keeps running.
Rmtree ==
  /\ AtStep("rmtree")
  /\ trace' = Append(trace, Cur)
  /\ IF dir_exists[Ws]
       THEN /\ dir_exists' = [dir_exists EXCEPT ![Ws] = FALSE]
            /\ app_py' = [app_py EXCEPT ![Ws] = FALSE]
            /\ pidfile' = [pidfile EXCEPT ![Ws] = NoFile]
            /\ op' = Advanced
       ELSE /\ op' = Raised
            /\ UNCHANGED <<dir_exists, app_py, pidfile>>
  /\ UNCHANGED <<allocVars, factories, args, venvs, servers, child, p_status,
                 closed, stubVars, clientVars, runVars, concVars>>

\* lines 256-259: open(os.path.join(venvs_dir, "app.py"), "w") and write; open
\* raises FileNotFoundError when venvs_dir does not exist.
WriteApp ==
  /\ AtStep("write_app")
  /\ trace' = Append(trace, Cur)
  /\ IF dir_exists[Ws]
       THEN /\ app_py' = [app_py EXCEPT ![Ws] = TRUE]
            /\ op' = Advanced
       ELSE /\ op' = Raised
            /\ UNCHANGED app_py
  /\ UNCHANGED <<allocVars, factories, args, venvs, dir_exists, pidfile, servers,
                 child, p_status, closed, stubVars, clientVars, runVars, concVars>>

Commands == {"apt", "after_install_cmd", "git_clone", "pyenv_install", "pip_base",
             "pip_libs", "pyenv_uninstall", "uwsgi_launch", "uwsgi_stop"}

\* __run_bash_cmd, lines 168-175: subprocess.Popen(cmd, shell=True, ...)
Popen ==
  /\ Running /\ child = "" /\ op.pc <= Len(Program(op)) /\ Cur \in Commands
  /\ child' = Cur
  /\ trace' = Append(trace, Cur)
  /\ UNCHANGED <<allocVars, factories, args, venvs, dir_exists, app_py, pidfile,
                 servers, op, p_status, closed, stubVars, clientVars, runVars, concVars>>

\* __run_bash_cmd, lines 176-208: the child exits with some code, wait() or
\* poll() reads it, a non-zero code is logged and nothing is raised.
\* These commands change nothing the model follows.
ExitPlain ==
  /\ child \in {"apt", "after_install_cmd", "pyenv_uninstall", "pip_base", "pip_libs"}
  /\ \E code \in {0, 1} : p_status' = code
  /\ child' = ""
  /\ op' = Advanced
  /\ UNCHANGED <<allocVars, factories, args, venvs, dir_exists, app_py, pidfile,
                 servers, trace, closed, stubVars, clientVars, runVars, concVars>>

\* lines 114-119: git clone ... <venvs_dir>/.pyenv and pyenv install with
\* PYENV_ROOT=<venvs_dir>/.pyenv create the directories above what they write
\* when they succeed; a failed one leaves the file system as it was.
ExitIntoWorkspace ==
  /\ child \in {"git_clone", "pyenv_install"}
  /\ \E code \in {0, 1} :
       /\ p_status' = code
       /\ dir_exists' = IF code = 0 THEN [dir_exists EXCEPT ![Ws] = TRUE]
                        ELSE dir_exists
  /\ child' = ""
  /\ op' = Advanced
  /\ UNCHANGED <<allocVars, factories, args, venvs, app_py, pidfile, servers, trace,
                 closed, stubVars, clientVars, runVars, concVars>>

\* lines 261-265: nohup uwsgi --wsgi-file app.py --http 0.0.0.0:<port>
\* --pidfile myapp.pid & echo OK. The shell exits 0 after the echo. uwsgi
\* comes up when it can bind the port, and records its pid; otherwise it
\* exits, before or after it has written the pid file.
ExitUwsgiLaunch ==
  /\ child = "uwsgi_launch"
  /\ \/ /\ venvs[op.venv].port \in Bindable
        /\ dir_exists[Ws] /\ app_py[Ws]
        /\ servers' = servers \cup {venvs[op.venv].port}
        /\ pidfile' = [pidfile EXCEPT ![Ws] = venvs[op.venv].port]
     \/ /\ dir_exists[Ws]
        /\ pidfile' = [pidfile EXCEPT ![Ws] = StalePid]
        /\ UNCHANGED servers
     \/ UNCHANGED <<servers, pidfile>>
  /\ p_status' = 0
  /\ child' = ""
  /\ op' = Advanced
  /\ UNCHANGED <<allocVars, factories, args, venvs, dir_exists, app_py, trace,
                 closed, stubVars, clientVars, runVars, concVars>>

\* lines 269-271: uwsgi --stop <venvs_dir>/myapp.pid signals the process the
\* pid file names; it fails when there is no file or no such process.
ExitUwsgiStop ==
  /\ child = "uwsgi_stop"
  /\ IF pidfile[Ws] \in servers
       THEN /\ servers' = servers \ {pidfile[Ws]}
            /\ pidfile' = [w \in Dirs |-> IF pidfile[w] = pidfile[Ws]
                                            THEN StalePid ELSE pidfile[w]]
            /\ p_status' = 0
       ELSE /\ p_status' = 1
            /\ UNCHANGED <<servers, pidfile>>
  /\ closed' = closed \cup {op.venv}
  /\ child' = ""
  /\ op' = Advanced
  /\ UNCHANGED <<allocVars, factories, args, venvs, dir_exists, app_py, trace, stubVars, clientVars, runVars, concVars>>

\* set_env's wrapper (lines 212-232): POST to http://0.0.0.0:<port>/bind and
\* return the reply's result; requests raises ConnectionError when nothing
\* listens on the port.
Call ==
  \E d \in 1..Len(venvs) :
    /\ ~Running
    /\ op' = [kind |-> "call", venv |-> d, pc |-> 1,
              status |-> IF venvs[d].port \in servers
                           THEN "returned" ELSE "raised"]
    /\ trace' = <<>>
    /\ UNCHANGED <<allocVars, factories, args, venvs, dir_exists, app_py, pidfile,
                   servers, child, p_status, closed, stubVars, clientVars, runVars, concVars>>

NextLife ==
  \/ FactoryFund \/ Instantiate \/ Reinstall \/ Reactivate \/ Close \/ Call
  \/ Makedirs \/ EnvsAppend \/ Rmtree \/ WriteApp \/ Popen
  \/ ExitPlain \/ ExitIntoWorkspace \/ ExitUwsgiLaunch \/ ExitUwsgiStop

SpecLife == InitLife /\ [][NextLife]_vars

IsPrefix(a, b) == Len(a) <= Len(b) /\ a = SubSeq(b, 1, Len(a))
Occurrences(seq, x) == Cardinality({i \in 1..Len(seq) : seq[i] = x})
OpVenv == venvs[op.venv]

\* C2: no two live descriptors produced through one factory, their port left
\* at its default, have the same port.
C2_DistinctPorts ==
  \A d, e \in 1..Len(venvs) :
    (d # e /\ d \notin closed /\ e \notin closed) => venvs[d].port # venvs[e].port

\* C5: a call through a client stub of a descriptor that has been closed, with
\* no launch since, ends in a transport failure.
C5_CallAfterCloseFails ==
  (op.kind = "call" /\ op.venv \in closed) => op.status = "raised"

\* C6: a reinstall that returns has run, after the uninstall and the removal
\* of the workspace, the steps create runs after preparing the workspace and
\* the environment, for every configuration.
AfterPreparation(steps) == SubSeq(steps, 3, Len(steps))

C6_ReinstallRepeatsCreate ==
  (op.kind = "reinstall" /\ op.status = "returned") =>
    AfterPreparation(trace) = AfterPreparation(post_init(OpVenv))

\* C7: the workspace directory exists whenever a file write or a command that
\* names a file in it is about to run or is running.
UsesWorkspace == {"write_app", "uwsgi_launch", "uwsgi_stop"}

C7_WorkspaceExistsWhenUsed ==
  /\ (Running /\ child = "" /\ op.pc <= Len(Program(op)) /\ Cur \in UsesWorkspace)
       => dir_exists[Ws]
  /\ child \in UsesWorkspace => dir_exists[Ws]

\* C9: create starts its steps in the order workspace directory and
\* environment, system packages, the post-install command when configured,
\* the runtime install, the library install, the stub, the launch; and a step
\* starts only when every earlier one has finished.
ClaimedCreateOrder(v) ==
  <<"makedirs", "envs_append", "apt">>
  \o (IF v.after_install_cmd # "" THEN <<"after_install_cmd">> ELSE <<>>)
  \o <<"git_clone", "pyenv_install">>
  \o <<"pip_base">> \o (IF v.libs # <<>> THEN <<"pip_libs">> ELSE <<>>)
  \o <<"write_app", "uwsgi_launch">>

C9_CreateOrder ==
  op.kind = "create" =>
    /\ IsPrefix(trace, ClaimedCreateOrder(OpVenv))
    /\ op.status = "returned" => trace = ClaimedCreateOrder(OpVenv)
    /\ child # "" => (child = trace[Len(trace)] /\ op.pc = Len(trace))
    /\ child = "" => op.pc = Len(trace) + 1

\* A create that has returned, with a post-install command and libraries.
C9_Witness ==
  /\ op.kind = "create" /\ op.status = "returned"
  /\ OpVenv.after_install_cmd # "" /\ OpVenv.libs # <<>>

\* C10 as claimed: the post-install command runs once in a provisioning pass,
\* after the runtime install and before the library install.
InPass == op.kind \in {"create", "reinstall"} /\ OpVenv.after_install_cmd # ""
PassDone == \E i \in 1..Len(trace) : trace[i] = "pip_base"

C10_PostInstallAfterRuntime ==
  InPass =>
    /\ PassDone => Occurrences(trace, "after_install_cmd") = 1
    /\ \A i \in 1..Len(trace) :
         trace[i] = "after_install_cmd" =>
           /\ \E j \in 1..(i - 1) : trace[j] = "pyenv_install"
           /\ \A j \in 1..(i - 1) : trace[j] \notin {"pip_base", "pip_libs"}

\* C10 as amended: the post-install command runs once in a provisioning pass,
\* after the system package step and before the runtime install (so before
\* the library install as well).
C10_PostInstallBeforeRuntime ==
  InPass =>
    /\ PassDone => Occurrences(trace, "after_install_cmd") = 1
    /\ \A i \in 1..Len(trace) :
         trace[i] = "after_install_cmd" =>
           /\ \E j \in 1..(i - 1) : trace[j] = "apt"
           /\ \A j \in 1..(i - 1) :
                trace[j] \notin {"git_clone", "pyenv_install", "pip_base", "pip_libs"}

\* A reinstall with a post-install command, past its library install.
C10_Witness ==
  /\ InPass /\ op.kind = "reinstall"
  /\ \E i \in 1..Len(trace) : trace[i] = "pip_libs"

\* C11: whichever provisioning commands exit non-zero, create and reinstall
\* run every step of theirs in order, the server launch included, and return
\* without raising.
C11_ProvisioningNeverHalts ==
  (op.kind \in {"create", "reinstall"} /\ ~Running) =>
    (op.status = "returned" /\ trace = Program(op))

\* C16: with venvs_dir left at its default no two descriptors share a
\* workspace directory (and so neither app.py nor myapp.pid).
C16_DistinctWorkspaces ==
  \A d, e \in 1..Len(venvs) : d # e => venvs[d].venvs_dir # venvs[e].venvs_dir

\* ------------------------------------------------------------- SpecStub

\* Source statements a caller may pass as imports.
Statements == {"import math", "def add(a,b): return a+b", "def sub(a,b): return a-b"}

RECURSIVE SeqsUpTo(_)
SeqsUpTo(n) ==
  IF n = 0 THEN {<<>>}
  ELSE SeqsUpTo(n - 1)
       \cup {Append(q, x) : q \in {r \in SeqsUpTo(n - 1) : Len(r) = n - 1},
                            x \in Statements}

\* lines 238-249: the fixed lines of the stub
base_code_lines ==
  << "from flask import Flask, request, jsonify",
     "app = Flask(__name__)",
     "@app.route('/bind',methods=['GET','POST'])",
     "def index():",
     "    context = request.json",
     "    fn = globals()[context['fn']]",
     "    result = fn(*context['args'],**context['kwargs'])",
     "    response = jsonify({'result': result})",
     "    return response",
     "application = app" >>

\* lines 251-252: for _impor in list(self.imports):
\*                    code_lines = [_impor] + code_lines
RECURSIVE prepend_imports(_, _)
prepend_imports(imps, lines) ==
  IF imps = <<>> THEN lines
  ELSE prepend_imports(Tail(imps), <<Head(imps)>> \o lines)

InitStub ==
  /\ imports \in SeqsUpTo(MaxImports)
  /\ code_lines = <<>>
  /\ bind = NoBind
  /\ InitClientIdle
  /\ InitRunIdle
  /\ InitConcIdle
  /\ InitSocket /\ port_range = <<1, 1>>
  /\ busy = {}
  /\ InitLifeIdle
  /\ args = NoArgs

\* __server, lines 238-254: the lines that are joined and written to app.py
GenerateServer ==
  /\ code_lines = <<>>
  /\ code_lines' = prepend_imports(imports, base_code_lines)
  /\ UNCHANGED <<imports, bind, allocVars, lifeVars, clientVars, runVars, concVars>>

\* The names a line of app.py binds in the module's globals when it runs at
\* module level: an import binds the imported names, a def its function, an
\* assignment its target; decorators and the indented body bind nothing.
Binds(line) ==
  CASE line = "import math" -> {"math"}
    [] line = "def add(a,b): return a+b" -> {"add"}
    [] line = "def sub(a,b): return a-b" -> {"sub"}
    [] line = "from flask import Flask, request, jsonify" -> {"Flask", "request", "jsonify"}
    [] line = "app = Flask(__name__)" -> {"app"}
    [] line = "def index():" -> {"index"}
    [] line = "application = app" -> {"application"}
    [] OTHER -> {}

\* globals() of app.py once the module has been loaded by uwsgi.
Globals(lines) == UNION {Binds(lines[i]) : i \in 1..Len(lines)}

\* The globals that are not callable objects: a module, and flask's request
\* proxy (the Request it stands for has no __call__).
NotCallable == {"math", "request"}

\* The values of context['fn'] a client may send.
RequestNames == {"add", "sub", "mul", "math", "index", "jsonify", "Flask", "request"}

\* line 244: fn = globals()[context['fn']]  and
\* line 245: result = fn(*context['args'], **context['kwargs'])
index(fn, lines) ==
  IF fn \notin Globals(lines) THEN "KeyError"
  ELSE IF fn \in NotCallable THEN "TypeError"
  ELSE "invoked"

\* The stub handles one POST /bind.
Bind ==
  /\ code_lines # <<>>
  /\ \E fn \in RequestNames :
       bind' = [fn |-> fn, outcome |-> index(fn, code_lines)]
  /\ UNCHANGED <<imports, code_lines, allocVars, lifeVars, clientVars, runVars, concVars>>

NextStub == GenerateServer \/ Bind

SpecStub == InitStub /\ [][NextStub]_vars

\* C8: the generated stub holds the imports in the caller's order, imports[1]
\* first, followed by the web-service declaration.
C8_ImportsInOrder ==
  code_lines # <<>> => code_lines = imports \o base_code_lines

\* The functions the imports statements declare.
DeclaredFunctions ==
  UNION {Binds(imports[i]) : i \in {j \in 1..Len(imports) : Binds(imports[j]) \cap {"add", "sub"} # {}}}

\* C14: the names the stub resolves and invokes are exactly the functions
\* declared by the imports statements; a request naming anything else (the
\* handler itself, the framework imports) is not dispatched.
C14_OnlyDeclaredFunctionsDispatched ==
  bind # NoBind => (bind.outcome = "invoked" <=> bind.fn \in DeclaredFunctions)

\* ------------------------------------------------------------ SpecClient

\* The characters of a function name: two letters and the underscore.
Chars == {"a", "d", "_"}

RECURSIVE NamesUpTo(_)
NamesUpTo(n) ==
  IF n = 0 THEN {}
  ELSE NamesUpTo(n - 1)
       \cup {<<c>> : c \in Chars}
       \cup {Append(q, c) : q \in {r \in NamesUpTo(n - 1) : Len(r) = n - 1}, c \in Chars}

\* str.split(sep): scan the string, closing a part at every separator.
RECURSIVE split_scan(_, _, _, _)
split_scan(s, sep, cur, parts) ==
  IF s = <<>> THEN Append(parts, cur)
  ELSE IF Head(s) = sep
         THEN split_scan(Tail(s), sep, <<>>, Append(parts, cur))
         ELSE split_scan(Tail(s), sep, Append(cur, Head(s)), parts)

split(s, sep) == split_scan(s, sep, <<>>, <<>>)

\* the remote identifier taken as the last part: func.__name__.split("_")[-1]
remote_name_last_part(name) ==
  LET parts == split(name, "_") IN parts[Len(parts)]

\* line 215: "fn": func.__name__.split("_")[0]
remote_name(name) == split(name, "_")[1]

\* What the POST can come back with: no connection, or an HTTP response with
\* a status code and a body that is a JSON object with a "result" key, a JSON
\* object without one, or not JSON at all.
Responses ==
  {[kind |-> "refused", status |-> 0, body |-> ""]}
  \cup {[kind |-> "http", status |-> st, body |-> b] :
          st \in {200, 404, 500},
          b \in {"result_object", "other_object", "not_json"}}

\* wrapper (lines 212-232): build msg, POST it (requests raises
\* ConnectionError when nothing listens), decode the body whatever the status
\* (response.json() raises on a body that is not JSON), take ["result"]
\* (KeyError without it) and return it.  func is never called.
wrapper(name, resp) ==
  LET sent == [fn |-> remote_name(name), executed |-> FALSE] IN
  IF resp.kind = "refused"
    THEN [fn |-> sent.fn, outcome |-> "raised", error |-> "ConnectionError",
          executed |-> sent.executed]
  ELSE IF resp.body = "not_json"
    THEN [fn |-> sent.fn, outcome |-> "raised", error |-> "JSONDecodeError",
          executed |-> sent.executed]
  ELSE IF resp.body = "other_object"
    THEN [fn |-> sent.fn, outcome |-> "raised", error |-> "KeyError",
          executed |-> sent.executed]
  ELSE [fn |-> sent.fn, outcome |-> "returned", error |-> "",
        executed |-> sent.executed]

InitAllocIdle ==
  /\ InitSocket /\ port_range = <<1, 1>>
  /\ busy = {}

InitClient ==
  /\ func_name \in NamesUpTo(MaxName)
  /\ response = NoResponse
  /\ call = NoCallYet
  /\ InitAllocIdle
  /\ InitLifeIdle
  /\ args = NoArgs
  /\ InitStubIdle
  /\ InitRunIdle
  /\ InitConcIdle

\* One call of the wrapped function.
CallWrapper ==
  \E r \in Responses :
    /\ response' = r
    /\ call' = wrapper(func_name, r)
    /\ UNCHANGED <<func_name, allocVars, lifeVars, stubVars, runVars, concVars>>

NextClient == CallWrapper

SpecClient == InitClient /\ [][NextClient]_vars

\* C13: the client stub sends the wrapped function's name up to, and not
\* including, its first underscore (a name without underscore unchanged), and
\* never executes the wrapped function's body.
C13_NameUpToFirstUnderscore ==
  call # NoCallYet =>
    /\ Len(call.fn) <= Len(func_name)
    /\ call.fn = SubSeq(func_name, 1, Len(call.fn))
    /\ \A i \in 1..Len(call.fn) : call.fn[i] # "_"
    /\ Len(call.fn) = Len(func_name) \/ func_name[Len(call.fn) + 1] = "_"
    /\ ~call.executed

\* A call through a name with an underscore between two characters that are not.
C13_Witness ==
  /\ call # NoCallYet
  /\ Len(func_name) = 3
  /\ func_name[1] # "_" /\ func_name[2] = "_" /\ func_name[3] # "_"

\* C15: a call that met a transport-level failure (connection refused, a
\* non-2xx status, a body that cannot be decoded) ends in an error, never in
\* a returned value.
TransportFailure ==
  \/ response.kind = "refused"
  \/ response.kind = "http" /\ response.status \notin 200..299
  \/ response.kind = "http" /\ response.body = "not_json"

C15_TransportFailureRaises ==
  (call # NoCallYet /\ TransportFailure) => call.outcome = "raised"

\* --------------------------------------------------------------- SpecRun
\* One run of __run_bash_cmd (lines 141-208) with the child it starts.  The
\* child writes its lines to the stdout and stderr pipes in the order of
\* proc.prog and exits with proc.code once it has written them all; a write
\* to a pipe that holds PipeCap unread lines blocks.

RECURSIVE OutputsUpTo(_)
OutputsUpTo(n) ==
  IF n = 0 THEN {<<>>}
  ELSE OutputsUpTo(n - 1)
       \cup {Append(q, x) : q \in {r \in OutputsUpTo(n - 1) : Len(r) = n - 1},
                            x \in {"out", "err"}}

ExitCodes == {"0", "1"}

InitRun ==
  /\ runner \in {[pc |-> "popen", verbose |-> v, p_status |-> "unbound", fault |-> "",
                  logged |-> "", warned |-> FALSE, outcome |-> "running", error |-> ""] :
                   v \in BOOLEAN}
  /\ proc \in {[state |-> "none", code |-> c, prog |-> g, out |-> 0, err |-> 0] :
                 c \in ExitCodes, g \in OutputsUpTo(MaxOutput)}
  /\ InitAllocIdle
  /\ InitLifeIdle
  /\ args = NoArgs
  /\ InitStubIdle
  /\ InitClientIdle
  /\ InitConcIdle

RunRest == <<allocVars, lifeVars, stubVars, clientVars, concVars>>

\* the status check taken as check=True would: a non-zero code raises
check_status_strict(p) ==
  IF p = "unbound"
    THEN [outcome |-> "raised", error |-> "UnboundLocalError", warned |-> FALSE]
  ELSE IF p # "0"
    THEN [outcome |-> "raised", error |-> "CalledProcessError", warned |-> FALSE]
  ELSE [outcome |-> "returned", error |-> "", warned |-> FALSE]

\* lines 207-208: if p_status != 0: logger.warning(...); then the method
\* returns.  Reading p_status before any assignment raises UnboundLocalError;
\* None (poll of a running child) is != 0 too.
check_status(p) ==
  IF p = "unbound"
    THEN [outcome |-> "raised", error |-> "UnboundLocalError", warned |-> FALSE]
    ELSE [outcome |-> "returned", error |-> "", warned |-> p # "0"]

\* lines 168-175: subprocess.Popen(cmd, stdout=PIPE, stderr=PIPE, ...)
RunPopen ==
  /\ runner.pc = "popen"
  /\ proc' = [proc EXCEPT !.state = "running"]
  /\ runner' = [runner EXCEPT !.pc = IF runner.verbose THEN "poll" ELSE "wait"]
  /\ UNCHANGED RunRest

\* The child writes its next line; the write blocks while the pipe is full.
ChildWrite ==
  /\ proc.state = "running"
  /\ proc.prog # <<>>
  /\ \/ /\ Head(proc.prog) = "out"
        /\ proc.out < PipeCap
        /\ proc' = [proc EXCEPT !.out = @ + 1, !.prog = Tail(@)]
     \/ /\ Head(proc.prog) = "err"
        /\ proc.err < PipeCap
        /\ proc' = [proc EXCEPT !.err = @ + 1, !.prog = Tail(@)]
  /\ UNCHANGED <<runner, RunRest>>

\* The child has written everything and exits with its code.
ChildExit ==
  /\ proc.state = "running"
  /\ proc.prog = <<>>
  /\ proc' = [proc EXCEPT !.state = "exited"]
  /\ UNCHANGED <<runner, RunRest>>

\* lines 185-187: p_status = process.poll(); break when it is not None
Poll ==
  /\ runner.pc = "poll"
  /\ runner' = IF proc.state = "exited"
                 THEN [runner EXCEPT !.p_status = proc.code, !.pc = "log_finished"]
                 ELSE [runner EXCEPT !.p_status = "none", !.pc = "readline"]
  /\ UNCHANGED <<proc, RunRest>>

\* lines 189-194: line = pipe.readline() on stdout, logged, and the loop goes
\* on.  readline blocks until stdout holds a line or the child has closed it.
Readline ==
  /\ runner.pc = "readline"
  /\ \/ /\ proc.out > 0
        /\ proc' = [proc EXCEPT !.out = @ - 1]
     \/ /\ proc.out = 0
        /\ proc.state = "exited"
        /\ UNCHANGED proc
  /\ runner' = [runner EXCEPT !.pc = "poll"]
  /\ UNCHANGED RunRest

\* readline raises: with universal_newlines=True the line is decoded, and
\* output that is not valid text raises UnicodeDecodeError inside the try.
ReadlineFault ==
  /\ runner.pc = "readline"
  /\ proc.out > 0
  /\ proc' = [proc EXCEPT !.out = @ - 1]
  /\ runner' = [runner EXCEPT !.pc = "except", !.fault = "UnicodeDecodeError"]
  /\ UNCHANGED RunRest

\* line 198: p_status = process.wait(), which reads neither pipe
Wait ==
  /\ runner.pc = "wait"
  /\ proc.state = "exited"
  /\ runner' = [runner EXCEPT !.p_status = proc.code, !.pc = "log_finished"]
  /\ UNCHANGED <<proc, RunRest>>

\* lines 200-202: logger.info("Process has just finished! Exit code: %s", p_status)
LogFinished ==
  /\ runner.pc = "log_finished"
  /\ runner' = [runner EXCEPT !.logged = runner.p_status, !.pc = "exit_with"]
  /\ UNCHANGED <<proc, RunRest>>

\* lines 203-205: except Exception: logger.error("Killing process!"); process.kill()
Except ==
  /\ runner.pc = "except"
  /\ proc' = [proc EXCEPT !.state = IF @ = "running" THEN "killed" ELSE @]
  /\ runner' = [runner EXCEPT !.pc = "exit_with"]
  /\ UNCHANGED RunRest

\* leaving the with block: Popen.__exit__ closes the pipes and waits for the
\* child, which has exited or been killed by then.
ExitWith ==
  /\ runner.pc = "exit_with"
  /\ proc.state # "running"
  /\ proc' = [proc EXCEPT !.out = 0, !.err = 0]
  /\ runner' = [runner EXCEPT !.pc = "check_status"]
  /\ UNCHANGED RunRest

\* lines 207-208 and the return
CheckStatus ==
  /\ runner.pc = "check_status"
  /\ LET r == check_status(runner.p_status) IN
     runner' = [runner EXCEPT !.pc = "done", !.outcome = r.outcome,
                              !.error = r.error, !.warned = r.warned]
  /\ UNCHANGED <<proc, RunRest>>

NextRun ==
  \/ RunPopen \/ ChildWrite \/ ChildExit \/ Poll \/ Readline \/ ReadlineFault
  \/ Wait \/ LogFinished \/ Except \/ ExitWith \/ CheckStatus

SpecRun == InitRun /\ [][NextRun]_vars

\* C12: a run in which the runner itself did not fail returns normally
\* whatever the child's exit code, the logged status is that code, and the
\* warning is logged exactly for a non-zero code; in both verbose modes.
C12_ExitCodeReportedNotRaised ==
  (runner.pc = "done" /\ runner.fault = "") =>
    /\ runner.outcome = "returned"
    /\ runner.logged = proc.code
    /\ runner.warned <=> proc.code # "0"

\* A verbose run, finished, of a child that exited non-zero.
C12_Witness ==
  /\ runner.pc = "done" /\ runner.fault = ""
  /\ runner.verbose
  /\ proc.code = "1"
  /\ Len(proc.prog) = 0

\* C17: while the non-verbose runner waits, a child that has not exited can
\* always take its next step, however much it writes to its pipes.
C17_WaitedChildNeverBlocked ==
  (runner.pc = "wait" /\ proc.state = "running" /\ proc.prog # <<>>) =>
    \/ Head(proc.prog) = "out" /\ proc.out < PipeCap
    \/ Head(proc.prog) = "err" /\ proc.err < PipeCap

\* C18: when the runner fails while supervising the child, the child is
\* killed and the runner's error reaches the caller.
C18_RunnerErrorPropagates ==
  (runner.pc = "done" /\ runner.fault # "") =>
    /\ proc.state = "killed"
    /\ runner.outcome = "raised"
    /\ runner.error = runner.fault

\* -------------------------------------------------------------- SpecConc
\* Threads of one process call next_free_port (lines 26-35) on the same
\* Socket.  The method takes no lock, so the threads interleave between its
\* statements, and self.port += 1 is a load followed by a store.

Threads == 1..MaxThreads

NoSock == 0

Outside == {"idle", "done", "raised"}

InitConc ==
  /\ InitSocket
  /\ busy \in SUBSET Ports
  /\ thr = [t \in Threads |-> [pc |-> "idle", tmp |-> 0, sock |-> NoSock, ret |-> 0]]
  /\ InitLifeIdle
  /\ args = NoArgs
  /\ InitStubIdle
  /\ InitClientIdle
  /\ InitRunIdle

ConcRest == <<max_port, port_range, busy, issued, last, clean, lifeVars, stubVars,
              clientVars, runVars>>

\* The ports some thread's test socket holds bound.
HeldBySocks == {thr[t].sock : t \in Threads} \ {NoSock}

\* line 27: sock = socket.socket(...)
Enter(t) ==
  /\ thr[t].pc = "idle"
  /\ thr' = [thr EXCEPT ![t].pc = "while"]
  /\ UNCHANGED <<port, ConcRest>>

\* line 28: while self.port <= self.max_port; line 35 when it fails
While(t) ==
  /\ thr[t].pc = "while"
  /\ thr' = [thr EXCEPT ![t].pc = IF port <= max_port THEN "bind" ELSE "raised"]
  /\ UNCHANGED <<port, ConcRest>>

\* line 30: sock.bind(("", self.port)); OSError when the port is held by
\* another process or by another thread's test socket
BindSock(t) ==
  /\ thr[t].pc = "bind"
  /\ thr' = IF port \in busy \cup HeldBySocks
              THEN [thr EXCEPT ![t].pc = "incr_load"]
              ELSE [thr EXCEPT ![t].pc = "close", ![t].sock = port]
  /\ UNCHANGED <<port, ConcRest>>

\* line 31: sock.close()
CloseSock(t) ==
  /\ thr[t].pc = "close"
  /\ thr' = [thr EXCEPT ![t].pc = "return", ![t].sock = NoSock]
  /\ UNCHANGED <<port, ConcRest>>

\* line 32: return self.port, the cursor as it stands now
Return(t) ==
  /\ thr[t].pc = "return"
  /\ thr' = [thr EXCEPT ![t].pc = "done", ![t].ret = port]
  /\ UNCHANGED <<port, ConcRest>>

\* line 34: self.port += 1, the load
IncrLoad(t) ==
  /\ thr[t].pc = "incr_load"
  /\ thr' = [thr EXCEPT ![t].pc = "incr_store", ![t].tmp = port]
  /\ UNCHANGED <<port, ConcRest>>

\* line 34: self.port += 1, the store
IncrStore(t) ==
  /\ thr[t].pc = "incr_store"
  /\ port' = thr[t].tmp + 1
  /\ thr' = [thr EXCEPT ![t].pc = "while"]
  /\ UNCHANGED ConcRest

NextConc ==
  \E t \in Threads :
    \/ Enter(t) \/ While(t) \/ BindSock(t) \/ CloseSock(t) \/ Return(t)
    \/ IncrLoad(t) \/ IncrStore(t)

SpecConc == InitConc /\ [][NextConc]_vars

\* C19: threads allocating from one Socket are inside next_free_port one at
\* a time; when all calls are over the ports returned are pairwise distinct
\* and every bindable port of the range below the cursor has been returned.
C19_ConcurrentCallsExclusive ==
  /\ Cardinality({t \in Threads : thr[t].pc \notin Outside}) <= 1
  /\ (\A t \in Threads : thr[t].pc \in Outside /\ thr[t].pc # "idle") =>
       /\ \A t, u \in Threads :
            (t # u /\ thr[t].pc = "done" /\ thr[u].pc = "done") => thr[t].ret # thr[u].ret
       /\ \A q \in port_range[1]..max_port :
            (q \notin busy /\ q < port) => \E t \in Threads : thr[t].ret = q

====
